---------------------------- MODULE Spec2Model ----------------------------
(***************************************************************************)
(* tiny_dnn::fully_connected_layer (tiny_dnn/layers/fully_connected_layer.h) *)
(*                                                                         *)
(* One layer object is followed through its life: construction by either   *)
(* constructor, forward_propagation / back_propagation calls, and move     *)
(* construction into a new object.  The layer base class, the parameter    *)
(* class, OpKernelContext and the two kernels are included by the header   *)
(* but live in other files; they are modelled from their documented        *)
(* contract.  Tensor values are integers (no rounding is modelled).        *)
(***************************************************************************)
EXTENDS Integers, Sequences, FiniteSets, TLC

VARIABLES
  alive,     \* TRUE iff a constructed layer object exists
  node,      \* the layer object (fields of layer and fully_connected_layer)
  nextObj,   \* number of kernel objects built so far (identity of `new`)
  built,     \* how the object was constructed: constructor, sizes, bias,
             \* backend
  event,     \* what the last call did: arguments, exception, kernel view
  accum      \* back_propagation calls since the gradients were last zeroed:
             \* how many, the batch of the first, whether all used that
             \* batch, and the gradients the first one left

vars == <<alive, node, nextObj, built, event, accum>>

----------------------------------------------------------------------------
(* Bounds of the model *)

MaxSize  == 2   \* in_features, out_features range over 1..MaxSize
MaxBuf   == 2   \* caller-owned batches 1..MaxBuf; batch k has k rows
MaxAccum == 2   \* back_propagation calls between two gradient clears
MaxMoves == 1   \* move constructions along one behaviour

Sizes == 1..MaxSize
Bufs  == 1..MaxBuf

----------------------------------------------------------------------------
(* Optional values: None is the empty tuple, Some(x) a one-element tuple *)

None    == <<>>
Some(x) == <<x>>

(* backend_t: the enumerators init_backend tests for, and two of the      *)
(* other enumerators of the type                                           *)
internal == 0
nnpack   == 1
libdnn   == 2
avx      == 3
opencl   == 4
BackendT == {internal, nnpack, libdnn, avx, opencl}

(* to_string(backend_t) *)
to_string(backend_type) ==
  CASE backend_type = internal -> "internal"
    [] backend_type = nnpack   -> "nnpack"
    [] backend_type = libdnn   -> "libdnn"
    [] backend_type = avx      -> "avx"
    [] backend_type = opencl   -> "opencl"

(* std_input_order(has_bias) of the layer base *)
std_input_order(has_bias) ==
  IF has_bias THEN <<"data", "weight", "bias">> ELSE <<"data", "weight">>

----------------------------------------------------------------------------
(* Tensors are sequences of rows; a row is a sequence of integers *)

Zeros(rows, cols) == [r \in 1..rows |-> [c \in 1..cols |-> 0]]

(* a default-constructed OpKernelContext *)
EmptyCtx ==
  [in_data |-> None, out_data |-> None, out_grad |-> None, in_grad |-> None,
   parallelize |-> None, engine |-> None, parameters |-> <<>>]

(* fully_params as default constructed *)
EmptyParams == [in_size_ |-> 0, out_size_ |-> 0, has_bias_ |-> FALSE]

(* layer::layer(in_type, out_type): the base sub-object at address addr *)
layer(addr, in_type, out_type) ==
  [addr         |-> addr,
   in_type      |-> in_type,
   out_type     |-> out_type,
   parameters   |-> <<>>,
   backend_type |-> None,
   parallelize  |-> TRUE,
   device       |-> None,
   params_      |-> EmptyParams,
   fwd_ctx_     |-> EmptyCtx,
   bwd_ctx_     |-> EmptyCtx,
   kernel_fwd_  |-> None,
   kernel_back_ |-> None]

NoNode == layer(0, <<>>, <<>>)

(* layer::add_parameter(1, 1, height, width, type, trainable): allocates   *)
(* the parameter object (pid is its identity) with its data and gradient   *)
add_parameter(n, height, width, type, trainable) ==
  [n EXCEPT !.parameters =
     Append(@, [type      |-> type,
                shape     |-> <<1, 1, height, width>>,
                trainable |-> trainable,
                pid       |-> Len(n.parameters) + 1,
                data      |-> Zeros(height, width),
                grad      |-> Zeros(height, width)])]

(* layer::set_backend_type *)
set_backend_type(n, backend_type) ==
  [n EXCEPT !.backend_type = Some(backend_type)]

(* set_params with the two sizes stored in each other's field *)
set_params_swapped(n, in_size, out_size, has_bias) ==
  [n EXCEPT !.params_ = [in_size_  |-> out_size,
                         out_size_ |-> in_size,
                         has_bias_ |-> has_bias]]

(* fully_connected_layer::set_params *)
set_params(n, in_size, out_size, has_bias) ==
  [n EXCEPT !.params_ = [in_size_  |-> in_size,
                         out_size_ |-> out_size,
                         has_bias_ |-> has_bias]]

(* new FullyConnectedOp(ctx) / new FullyConnectedGradOp(ctx), where ctx is *)
(* OpKernelConstruction(layer::device(), &params_): the object remembers   *)
(* the device and the address of the descriptor it was built against       *)
NewKernel(op, id, n) ==
  [op |-> op, id |-> id, device |-> n.device, params_ |-> n.addr]

(* init_backend with nnpack missing from the accepted backends *)
init_backend_no_nnpack(n, backend_type, ids) ==
  IF backend_type = internal \/ backend_type = avx
    THEN [node |-> [n EXCEPT
                      !.kernel_fwd_  = Some(NewKernel("FullyConnectedOp", ids + 1, n)),
                      !.kernel_back_ = Some(NewKernel("FullyConnectedGradOp", ids + 2, n))],
          error |-> None]
    ELSE [node |-> n,
          error |-> Some(<<"Not supported engine: ", to_string(backend_type)>>)]

(* fully_connected_layer::init_backend; ids is the number of kernel        *)
(* objects that exist already.  Yields the object and the exception.       *)
init_backend(n, backend_type, ids) ==
  IF backend_type = internal \/ backend_type = avx
        \/ backend_type = nnpack
    THEN [node |-> [n EXCEPT
                      !.kernel_fwd_  = Some(NewKernel("FullyConnectedOp", ids + 1, n)),
                      !.kernel_back_ = Some(NewKernel("FullyConnectedGradOp", ids + 2, n))],
          error |-> None]
    ELSE [node |-> n,
          error |-> Some(<<"Not supported engine: ", to_string(backend_type)>>)]

(* what a constructor leaves: the object, or the exception with the state  *)
(* the object had when it was thrown                                       *)
Finish(r, backend_type) ==
  IF r.error = None
    THEN [node |-> set_backend_type(r.node, backend_type), error |-> None]
    ELSE r

(* fully_connected_layer(in_features, out_features, bias, backend_type) *)
ConstructPositional(addr, in_features, out_features, bias, backend_type, ids) ==
  LET n0 == layer(addr, <<"data">>, <<"data">>)
      n1 == add_parameter(n0, out_features, in_features, "weight", TRUE)
      n2 == IF bias THEN add_parameter(n1, 1, out_features, "bias", TRUE)
                    ELSE n1
      n3 == set_params(n2, in_features, out_features, bias)
  IN  Finish(init_backend(n3, backend_type, ids), backend_type)

(* fully_connected_layer(in_features, out_features, params) *)
ConstructRecord(addr, in_features, out_features, params, ids) ==
  LET n0 == layer(addr, std_input_order(params.bias), <<"data">>)
      n1 == set_params(n0, in_features, out_features, params.bias)
  IN  Finish(init_backend(n1, params.backend_type, ids), params.backend_type)

(* fully_connected_layer_params values *)
LayerParams ==
  [parallellze : BOOLEAN, backend_type : BackendT, bias : BOOLEAN]

----------------------------------------------------------------------------
(* accessors *)

fan_in_size(n)  == n.params_.in_size_
fan_out_size(n) == n.params_.out_size_
in_shape(n)     == << <<n.params_.in_size_, 1, 1>> >>
out_shape(n)    == << <<n.params_.out_size_, 1, 1>> >>
engine(n)       == n.backend_type
parallelize(n)  == n.parallelize
parameters(n)   == [i \in 1..Len(n.parameters) |-> n.parameters[i].pid]

----------------------------------------------------------------------------
(* Caller-owned tensors.  Batch k consists of four buffers of k rows each: *)
(* input, output, output gradient and input gradient.  A buffer reference  *)
(* is <<kind, k>>.  The contents of the buffers the layer only reads are   *)
(* fixed by the caller.                                                    *)

Ref(kind, k) == <<kind, k>>

InVal(r, c) == r + c - 1
GVal(r, c)  == r - 2 * c + 2

(* contents of input buffer <<"in_data", k>> for a layer of in_size columns *)
InData(ref, in_size) ==
  [r \in 1..ref[2] |-> [c \in 1..in_size |-> InVal(r, c)]]

(* contents of output-gradient buffer <<"out_grad", k>> *)
OutGrad(ref, out_size) ==
  [r \in 1..ref[2] |-> [c \in 1..out_size |-> GVal(r, c)]]

(* values the optimizer writes into a parameter in place *)
WVal(type, r, c) ==
  IF type = "weight" THEN 2 * r - c ELSE c - 3

RECURSIVE SumTo(_, _)
SumTo(f, n) == IF n = 0 THEN 0 ELSE f[n] + SumTo(f, n - 1)

(* values an out-of-range read may produce *)
Indeterminate == {0, 1}

----------------------------------------------------------------------------
(* OpKernelContext *)

set_in_out2(ctx, in_data, out_data) ==
  [ctx EXCEPT !.in_data = Some(in_data), !.out_data = Some(out_data)]

set_in_out4(ctx, in_data, out_data, out_grad, in_grad) ==
  [ctx EXCEPT !.in_data = Some(in_data), !.out_data = Some(out_data),
              !.out_grad = Some(out_grad), !.in_grad = Some(in_grad)]

setParallelize(ctx, p) == [ctx EXCEPT !.parallelize = Some(p)]
setEngine(ctx, e)      == [ctx EXCEPT !.engine = e]
setParameters(ctx, ps) == [ctx EXCEPT !.parameters = ps]

(* forward_propagation binding the buffers on the first call only *)
forward_ctx_bind_once(n, in_data, out_data) ==
  LET c1 == IF n.fwd_ctx_.in_data = None
              THEN set_in_out2(n.fwd_ctx_, in_data, out_data)
              ELSE n.fwd_ctx_
      c2 == setParallelize(c1, parallelize(n))
      c3 == setEngine(c2, engine(n))
  IN  setParameters(c3, parameters(n))

(* the context forward_propagation hands to kernel_fwd_->compute *)
forward_ctx(n, in_data, out_data) ==
  LET c1 == set_in_out2(n.fwd_ctx_, in_data, out_data)
      c2 == setParallelize(c1, parallelize(n))
      c3 == setEngine(c2, engine(n))
  IN  setParameters(c3, parameters(n))

(* the context back_propagation hands to kernel_back_->compute *)
backward_ctx(n, in_data, out_data, out_grad, in_grad) ==
  LET c1 == set_in_out4(n.bwd_ctx_, in_data, out_data, out_grad, in_grad)
      c2 == setParallelize(c1, parallelize(n))
      c3 == setEngine(c2, engine(n))
  IN  setParameters(c3, parameters(n))

----------------------------------------------------------------------------
(* The kernels.  A kernel reads the descriptor through the address it was  *)
(* built with and the parameters through the context.                      *)

(* the parameter object a context entry refers to *)
ParamAt(n, ctx, i) ==
  LET hit == {j \in 1..Len(n.parameters) : n.parameters[j].pid = ctx.parameters[i]}
  IN  n.parameters[CHOOSE j \in hit : TRUE]

(* FullyConnectedOp::compute: output = input * W^T (+ bias).  The set of   *)
(* tensors the call may leave in ctx.out_data.                             *)
FullyConnectedOp_compute(n, kernel, ctx) ==
  LET d    == n.params_
      x    == InData(ctx.in_data[1], d.in_size_)
      rows == 1..Len(x)
      cols == 1..d.out_size_
  IN  IF kernel.params_ = n.addr /\ Len(ctx.parameters) >= (IF d.has_bias_ THEN 2 ELSE 1)
        THEN LET W == ParamAt(n, ctx, 1).data
                 b == IF d.has_bias_ THEN ParamAt(n, ctx, 2).data[1]
                                     ELSE [o \in cols |-> 0]
             IN  {[r \in rows |-> [o \in cols |->
                    SumTo([i \in 1..d.in_size_ |-> x[r][i] * W[o][i]], d.in_size_)
                      + b[o]]]}
        ELSE {[r \in rows |-> [o \in cols |-> g]] : g \in Indeterminate}

(* FullyConnectedGradOp::compute, input gradient: in_grad = out_grad * W *)
FullyConnectedGradOp_in_grad(n, kernel, ctx) ==
  LET d    == n.params_
      g    == OutGrad(ctx.out_grad[1], d.out_size_)
      rows == 1..Len(g)
      cols == 1..d.in_size_
  IN  IF kernel.params_ = n.addr /\ Len(ctx.parameters) >= (IF d.has_bias_ THEN 2 ELSE 1)
        THEN LET W == ParamAt(n, ctx, 1).data
             IN  {[r \in rows |-> [i \in cols |->
                    SumTo([o \in 1..d.out_size_ |-> g[r][o] * W[o][i]], d.out_size_)]]}
        ELSE {[r \in rows |-> [i \in cols |-> v]] : v \in Indeterminate}

(* what one back_propagation call adds to the gradient of parameter p *)
GradTerm(n, ctx, p) ==
  LET d == n.params_
      x == InData(ctx.in_data[1], d.in_size_)
      g == OutGrad(ctx.out_grad[1], d.out_size_)
      N == Len(g)
  IN  IF p.type = "weight"
        THEN [o \in 1..d.out_size_ |-> [i \in 1..d.in_size_ |->
               SumTo([r \in 1..N |-> g[r][o] * x[r][i]], N)]]
        ELSE [z \in 1..1 |-> [o \in 1..d.out_size_ |->
               SumTo([r \in 1..N |-> g[r][o]], N)]]

AddT(a, b) == [r \in 1..Len(a) |-> [c \in 1..Len(a[r]) |-> a[r][c] + b[r][c]]]

(* FullyConnectedGradOp::compute, parameter gradients: accumulated into    *)
(* the parameters the context lists                                        *)
FullyConnectedGradOp_accumulate(n, kernel, ctx) ==
  IF kernel.params_ = n.addr /\ Len(ctx.parameters) >= (IF n.params_.has_bias_ THEN 2 ELSE 1)
    THEN [j \in 1..Len(n.parameters) |->
           IF \E i \in 1..Len(ctx.parameters) : ctx.parameters[i] = n.parameters[j].pid
             THEN [n.parameters[j] EXCEPT
                     !.grad = AddT(@, GradTerm(n, ctx, n.parameters[j]))]
             ELSE n.parameters[j]]
    ELSE n.parameters

----------------------------------------------------------------------------
(* fully_connected_layer(fully_connected_layer &&other): the base and the  *)
(* three members of the initializer list are moved, the two contexts are   *)
(* not in the list and are default constructed, then init_backend runs     *)
(* with other.engine()                                                     *)
MoveConstruct(addr, other, ids) ==
  LET n0 == [layer(addr, other.in_type, other.out_type) EXCEPT
               !.parameters   = other.parameters,
               !.backend_type = other.backend_type,
               !.parallelize  = other.parallelize,
               !.device       = other.device]
      n1 == [n0 EXCEPT !.params_      = other.params_,
                       !.kernel_fwd_  = other.kernel_fwd_,
                       !.kernel_back_ = other.kernel_back_]
  IN  init_backend(n1, engine(other)[1], ids)

(* forward_propagation selecting the kernels again on every call *)
forward_propagation_reselect(n, in_data, out_data) ==
  [init_backend(n, engine(n)[1], n.kernel_back_[1].id).node EXCEPT
     !.fwd_ctx_ = forward_ctx(n, in_data, out_data)]

(* forward_propagation: the object after the call *)
forward_propagation(n, in_data, out_data) ==
  [n EXCEPT !.fwd_ctx_ = forward_ctx(n, in_data, out_data)]

(* back_propagation: the object after the call, given the gradients the    *)
(* kernel accumulated                                                      *)
back_propagation(n, in_data, out_data, out_grad, in_grad) ==
  LET ctx == backward_ctx(n, in_data, out_data, out_grad, in_grad)
  IN  [n EXCEPT !.bwd_ctx_   = ctx,
                !.parameters = FullyConnectedGradOp_accumulate(n, n.kernel_back_[1], ctx)]

----------------------------------------------------------------------------
(* State machine *)

NoArgs == [in_features |-> 0, out_features |-> 0, bias |-> FALSE,
           backend_type |-> internal, parallellze |-> TRUE]

NoEvent ==
  [op |-> "none", batch |-> 0, ctor |-> "", args |-> NoArgs, error |-> None,
   thrown |-> NoNode, kernel |-> None, ctx |-> EmptyCtx, wrote |-> None,
   value |-> <<>>, other |-> NoNode]

NoAccum == [count |-> 0, batch |-> 0, same |-> TRUE, first |-> <<>>]

Grads(n) == [i \in 1..Len(n.parameters) |-> n.parameters[i].grad]

Init ==
  /\ alive = FALSE
  /\ node = NoNode
  /\ nextObj = 0
  /\ built = [ctor |-> "", args |-> NoArgs]
  /\ event = NoEvent
  /\ accum = NoAccum

(* the outcome r of a constructor called with args *)
Constructed(ctor, args, r) ==
  /\ ~alive /\ node = NoNode
  /\ event' = [NoEvent EXCEPT !.op = "construct", !.ctor = ctor, !.args = args,
                              !.error = r.error,
                              !.thrown = IF r.error = None THEN NoNode ELSE r.node]
  /\ IF r.error = None
       THEN /\ alive' = TRUE
            /\ node' = r.node
            /\ nextObj' = nextObj + 2
            /\ built' = [ctor |-> ctor,
                         args |-> [args EXCEPT !.parallellze = TRUE]]
       ELSE UNCHANGED <<alive, node, nextObj, built>>
  /\ UNCHANGED accum

Construct ==
  \E i \in Sizes, o \in Sizes, bias \in BOOLEAN, backend_type \in BackendT :
    Constructed("positional",
                [in_features |-> i, out_features |-> o, bias |-> bias,
                 backend_type |-> backend_type, parallellze |-> TRUE],
                ConstructPositional(1, i, o, bias, backend_type, nextObj))

ConstructFromParams ==
  \E i \in Sizes, o \in Sizes, params \in LayerParams :
    Constructed("record",
                [in_features |-> i, out_features |-> o, bias |-> params.bias,
                 backend_type |-> params.backend_type,
                 parallellze |-> params.parallellze],
                ConstructRecord(1, i, o, params, nextObj))

Move ==
  /\ alive
  /\ node.addr <= MaxMoves
  /\ LET r == MoveConstruct(node.addr + 1, node, nextObj)
     IN  /\ r.error = None
         /\ node' = r.node
         /\ nextObj' = nextObj + 2
         /\ event' = [NoEvent EXCEPT !.op = "move", !.other = node]
  /\ UNCHANGED <<alive, built, accum>>

Forward ==
  /\ alive
  /\ \E k \in Bufs :
       LET n2 == forward_propagation(node, Ref("in_data", k), Ref("out_data", k))
           ctx == n2.fwd_ctx_
       IN  \E v \in FullyConnectedOp_compute(n2, n2.kernel_fwd_[1], ctx) :
             /\ node' = n2
             /\ event' = [NoEvent EXCEPT !.op = "forward", !.batch = k,
                            !.kernel = n2.kernel_fwd_, !.ctx = ctx,
                            !.wrote = ctx.out_data, !.value = v]
  /\ UNCHANGED <<alive, nextObj, built, accum>>

Backward ==
  /\ alive
  /\ accum.count < MaxAccum
  /\ \E k \in Bufs :
       LET n2 == back_propagation(node, Ref("in_data", k), Ref("out_data", k),
                                  Ref("out_grad", k), Ref("in_grad", k))
           ctx == n2.bwd_ctx_
       IN  \E v \in FullyConnectedGradOp_in_grad(node, node.kernel_back_[1], ctx) :
             /\ node' = n2
             /\ event' = [NoEvent EXCEPT !.op = "backward", !.batch = k,
                            !.kernel = n2.kernel_back_, !.ctx = ctx,
                            !.wrote = ctx.in_grad, !.value = v]
             /\ accum' = IF accum.count = 0
                          THEN [count |-> 1, batch |-> k, same |-> TRUE,
                                first |-> Grads(n2)]
                          ELSE [accum EXCEPT !.count = @ + 1,
                                             !.same = @ /\ k = accum.batch]
  /\ UNCHANGED <<alive, nextObj, built>>

(* the optimizer writes new values into the parameters, in place *)
OptimizerUpdate ==
  /\ alive
  /\ node' = [node EXCEPT !.parameters =
                [j \in 1..Len(@) |-> [@[j] EXCEPT !.data =
                   [r \in 1..Len(@) |-> [c \in 1..Len(@[r]) |->
                      WVal(node.parameters[j].type, r, c)]]]]]
  /\ node' # node
  /\ event' = NoEvent
  /\ UNCHANGED <<alive, nextObj, built, accum>>

(* the owner zeroes the parameter gradients between training steps *)
ClearGrads ==
  /\ alive
  /\ accum # NoAccum
  /\ node' = [node EXCEPT !.parameters =
                [j \in 1..Len(@) |-> [@[j] EXCEPT !.grad =
                   Zeros(Len(@), Len(@[1]))]]]
  /\ event' = NoEvent
  /\ accum' = NoAccum
  /\ UNCHANGED <<alive, nextObj, built>>

Next ==
  \/ Construct
  \/ ConstructFromParams
  \/ Move
  \/ Forward
  \/ Backward
  \/ OptimizerUpdate
  \/ ClearGrads

Spec == Init /\ [][Next]_vars

----------------------------------------------------------------------------
(* Properties *)

Supported == {internal, avx, nnpack}

HasKind(n, type) == \E j \in 1..Len(n.parameters) : n.parameters[j].type = type
Kind(n, type) ==
  n.parameters[CHOOSE j \in 1..Len(n.parameters) : n.parameters[j].type = type]

Double(t) == AddT(t, t)

(* C1: a constructed layer, built by either constructor with any accepted  *)
(* backend, reports fan_in_size = in_features, fan_out_size = out_features,*)
(* in_shape = [(in_features,1,1)], out_shape = [(out_features,1,1)], and   *)
(* keeps reporting them after every later call                             *)
C1_SizesAndShapes ==
  alive =>
    /\ fan_in_size(node) = built.args.in_features
    /\ fan_out_size(node) = built.args.out_features
    /\ in_shape(node) = << <<built.args.in_features, 1, 1>> >>
    /\ out_shape(node) = << <<built.args.out_features, 1, 1>> >>

C1_Witness ==
  /\ alive
  /\ event.op = "backward"
  /\ node.fwd_ctx_ # EmptyCtx
  /\ built.ctor = "record"
  /\ built.args.in_features = 2
  /\ built.args.out_features = 1

(* C2: every constructed layer owns a trainable weight of shape            *)
(* out_size x in_size and, iff has_bias, a trainable bias of shape         *)
(* out_size: two parameters with bias, one without, for both constructors  *)
(* and after every later call                                              *)
C2_ParameterCount ==
  alive =>
    /\ Len(node.parameters) = (IF node.params_.has_bias_ THEN 2 ELSE 1)
    /\ HasKind(node, "weight")
    /\ Kind(node, "weight").trainable
    /\ Kind(node, "weight").shape
         = <<1, 1, node.params_.out_size_, node.params_.in_size_>>
    /\ HasKind(node, "bias") <=> node.params_.has_bias_
    /\ HasKind(node, "bias") =>
         /\ Kind(node, "bias").trainable
         /\ Kind(node, "bias").shape = <<1, 1, 1, node.params_.out_size_>>

(* what C2 states, for the layers the positional constructor built *)
PositionalParameterCount ==
  (alive /\ built.ctor = "positional") =>
    /\ Len(node.parameters) = (IF node.params_.has_bias_ THEN 2 ELSE 1)
    /\ Kind(node, "weight").shape
         = <<1, 1, node.params_.out_size_, node.params_.in_size_>>
    /\ node.params_.has_bias_ =>
         Kind(node, "bias").shape = <<1, 1, 1, node.params_.out_size_>>

(* C3: the constructor taking the parameter record leaves the object the   *)
(* positional constructor leaves for the same in_features, out_features,   *)
(* bias and backend (descriptor, registered parameters, kernels, backend), *)
(* and stores the record's parallelize value as the layer's flag           *)
C3_RecordConstructorSame ==
  (alive /\ event.op = "construct" /\ event.ctor = "record") =>
    LET a == event.args
        p == ConstructPositional(1, a.in_features, a.out_features, a.bias,
                                 a.backend_type, nextObj - 2).node
    IN  /\ node.params_ = p.params_
        /\ node.parameters = p.parameters
        /\ node.kernel_fwd_ = p.kernel_fwd_
        /\ node.kernel_back_ = p.kernel_back_
        /\ node.backend_type = p.backend_type
        /\ node.parallelize = a.parallellze

(* C4: construction with a backend outside the supported set throws an     *)
(* error naming the backend, has allocated no parameter, built no kernel   *)
(* and recorded no backend when it throws, and leaves no object            *)
C4_UnsupportedBackend ==
  (event.op = "construct" /\ event.args.backend_type \notin Supported) =>
    /\ event.error = Some(<<"Not supported engine: ",
                            to_string(event.args.backend_type)>>)
    /\ ~alive
    /\ event.thrown.parameters = <<>>
    /\ event.thrown.kernel_fwd_ = None
    /\ event.thrown.kernel_back_ = None
    /\ event.thrown.backend_type = None

(* what C4 states apart from the allocation *)
UnsupportedBackendThrows ==
  (event.op = "construct" /\ event.args.backend_type \notin Supported) =>
    /\ event.error = Some(<<"Not supported engine: ",
                            to_string(event.args.backend_type)>>)
    /\ ~alive /\ node = NoNode
    /\ event.thrown.kernel_fwd_ = None
    /\ event.thrown.kernel_back_ = None
    /\ event.thrown.backend_type = None

(* C5: kernel selection succeeds exactly for internal, avx and nnpack;     *)
(* each of them yields the pair (FullyConnectedOp, FullyConnectedGradOp)   *)
(* built against the layer's own descriptor; and selection changes nothing *)
(* of the layer but the two kernels                                        *)
C5_KernelSelection ==
  /\ event.op = "construct" =>
       (event.error = None <=> event.args.backend_type \in Supported)
  /\ (alive /\ event.op \in {"construct", "move"}) =>
       /\ node.kernel_fwd_[1].op = "FullyConnectedOp"
       /\ node.kernel_back_[1].op = "FullyConnectedGradOp"
       /\ node.kernel_fwd_[1].params_ = node.addr
       /\ node.kernel_back_[1].params_ = node.addr
  /\ alive =>
       \A b \in BackendT :
         LET r == init_backend(node, b, nextObj)
         IN  /\ r.error = None <=> b \in Supported
             /\ r.error = None =>
                  /\ [r.node EXCEPT !.kernel_fwd_ = node.kernel_fwd_,
                                    !.kernel_back_ = node.kernel_back_] = node
                  /\ \A b2 \in Supported : init_backend(node, b2, nextObj) = r
             /\ r.error # None => r.node = node

C5_Witness ==
  /\ alive
  /\ event.op = "construct"
  /\ event.args.backend_type = nnpack
  /\ node.kernel_fwd_ # None

(* C6: move construction hands the descriptor, the parameters and both     *)
(* contexts of other to the new object and selects the kernels again with  *)
(* other's backend: both kernels are new objects that refer to the new     *)
(* object's descriptor, and sizes, shapes, parameters and backend are      *)
(* those other had                                                         *)
C6_MoveConstruct ==
  event.op = "move" =>
    LET other == event.other
    IN  /\ node.params_ = other.params_
        /\ node.parameters = other.parameters
        /\ node.fwd_ctx_ = other.fwd_ctx_
        /\ node.bwd_ctx_ = other.bwd_ctx_
        /\ node.backend_type = other.backend_type
        /\ node.kernel_fwd_[1].id \notin {other.kernel_fwd_[1].id, other.kernel_back_[1].id}
        /\ node.kernel_back_[1].id \notin {other.kernel_fwd_[1].id, other.kernel_back_[1].id}
        /\ node.kernel_fwd_[1].params_ = node.addr
        /\ node.kernel_back_[1].params_ = node.addr
        /\ node.addr # other.addr
        /\ in_shape(node) = in_shape(other)
        /\ out_shape(node) = out_shape(other)

(* what C6 states apart from the contexts *)
MoveRebuildsKernels ==
  event.op = "move" =>
    LET other == event.other
    IN  /\ node.params_ = other.params_
        /\ node.parameters = other.parameters
        /\ node.backend_type = other.backend_type
        /\ node.kernel_fwd_[1].id \notin {other.kernel_fwd_[1].id, other.kernel_back_[1].id}
        /\ node.kernel_back_[1].id \notin {other.kernel_fwd_[1].id, other.kernel_back_[1].id}
        /\ node.kernel_fwd_[1].params_ = node.addr
        /\ node.kernel_back_[1].params_ = node.addr
        /\ node.addr # other.addr
        /\ node.fwd_ctx_ = EmptyCtx
        /\ node.bwd_ctx_ = EmptyCtx

(* C7: whenever a kernel is invoked, every field of the context it is      *)
(* given is that of the current call: the buffers are the call's           *)
(* arguments, the flag, the backend and the parameter list are the         *)
(* layer's current ones                                                    *)
C7_ContextIsCurrent ==
  /\ event.op = "forward" =>
       /\ event.kernel = node.kernel_fwd_
       /\ event.ctx.in_data = Some(Ref("in_data", event.batch))
       /\ event.ctx.out_data = Some(Ref("out_data", event.batch))
  /\ event.op = "backward" =>
       /\ event.kernel = node.kernel_back_
       /\ event.ctx.in_data = Some(Ref("in_data", event.batch))
       /\ event.ctx.out_data = Some(Ref("out_data", event.batch))
       /\ event.ctx.out_grad = Some(Ref("out_grad", event.batch))
       /\ event.ctx.in_grad = Some(Ref("in_grad", event.batch))
  /\ event.op \in {"forward", "backward"} =>
       /\ event.ctx.parallelize = Some(node.parallelize)
       /\ event.ctx.engine = node.backend_type
       /\ event.ctx.parameters = parameters(node)

C7_Witness ==
  /\ event.op = "backward"
  /\ accum.count = 2
  /\ ~accum.same
  /\ node.fwd_ctx_.in_data # None
  /\ node.fwd_ctx_.in_data # event.ctx.in_data

(* C8: two back_propagation calls with the same buffers and no gradient    *)
(* clear in between leave in the weight gradient (and in the bias gradient *)
(* when the layer has a bias) exactly twice what the first call left       *)
C8_GradientDoubles ==
  (alive /\ accum.count = 2 /\ accum.same) =>
    /\ \E j \in 1..Len(node.parameters) :
         /\ node.parameters[j].type = "weight"
         /\ node.parameters[j].grad = Double(accum.first[j])
    /\ node.params_.has_bias_ =>
         \E j \in 1..Len(node.parameters) :
           /\ node.parameters[j].type = "bias"
           /\ node.parameters[j].grad = Double(accum.first[j])

(* what C8 states, for the layers the positional constructor built *)
PositionalGradientDoubles ==
  (alive /\ built.ctor = "positional" /\ accum.count = 2 /\ accum.same) =>
    \A j \in 1..Len(node.parameters) :
      /\ node.parameters[j].grad = Double(accum.first[j])
      /\ node.parameters[j].grad # Zeros(Len(accum.first[j]), Len(accum.first[j][1]))

(* x * W^T + b for one row x *)
AffineRow(x, W, b, out_size) ==
  [o \in 1..out_size |-> SumTo([i \in 1..Len(x) |-> x[i] * W[o][i]], Len(x)) + b[o]]

(* C9: forward_propagation writes, for every row of the batch,             *)
(* output_row = input_row * weight^T + bias, the bias term present iff the *)
(* layer has a bias; a row of the output depends on its own input row only *)

C9_ForwardAffine ==
  (alive /\ event.op = "forward") =>
    /\ HasKind(node, "weight")
    /\ node.params_.has_bias_ => HasKind(node, "bias")
    /\ event.wrote = Some(Ref("out_data", event.batch))
    /\ LET d == node.params_
           x == InData(Ref("in_data", event.batch), d.in_size_)
           W == Kind(node, "weight").data
           b == IF d.has_bias_ THEN Kind(node, "bias").data[1]
                               ELSE [o \in 1..d.out_size_ |-> 0]
       IN  /\ Len(event.value) = event.batch
           /\ \A r \in 1..event.batch :
                event.value[r] = AffineRow(x[r], W, b, d.out_size_)

(* what C9 states, for the layers the positional constructor built *)
PositionalForwardAffine ==
  (alive /\ event.op = "forward" /\ built.ctor = "positional") =>
    LET d == node.params_
        x == InData(Ref("in_data", event.batch), d.in_size_)
        W == Kind(node, "weight").data
        b == IF d.has_bias_ THEN Kind(node, "bias").data[1]
                            ELSE [o \in 1..d.out_size_ |-> 0]
    IN  /\ event.wrote = Some(Ref("out_data", event.batch))
        /\ Len(event.value) = event.batch
        /\ \A r \in 1..event.batch :
             event.value[r] = AffineRow(x[r], W, b, d.out_size_)

=============================================================================
